---------------------------- MODULE Spec2Model ----------------------------
(***************************************************************************)
(* Model of internal/runner/options.go of dnsx: ParseOptions and the       *)
(* functions it calls (configureOutput, configureRcodes, configureResume,  *)
(* validateOptions) and the two resume queries.                            *)
(*                                                                         *)
(* A Go string is modelled as a sequence of one-character strings, so that *)
(* strings.Split, strings.ToLower and strconv.Atoi are computed character  *)
(* by character.  The three input fields (Hosts, Domains, WordList) are    *)
(* only compared for equality by the code and are kept as atomic strings.  *)
(***************************************************************************)
EXTENDS Integers, Sequences, FiniteSets, TLC

VARIABLES
    RCode,        \* options.RCode: the raw -rcode string (sequence of characters)
    Hosts,        \* options.Hosts
    Domains,      \* options.Domains
    WordList,     \* options.WordList
    Response,     \* options.Response
    ResponseOnly, \* options.ResponseOnly
    Version,      \* options.Version
    Resume,       \* options.Resume
    Verbose,      \* options.Verbose
    Silent,       \* options.Silent
    rcodes,       \* options.rcodes: the key set of the map
    hasRCodes,    \* options.hasRCodes
    resumeCfg,    \* options.resumeCfg: "nil", "empty", "partial" or "loaded"
    resumeFile,   \* resume.cfg on disk: "absent", "valid" or "malformed"
    fileReads,    \* number of times resume.cfg has been read
    logLevel,     \* gologger.DefaultLogger's maximum level
    err,          \* the local err of ParseOptions
    pc,           \* position of the process inside ParseOptions
    exitCode,     \* -1 while the process runs, else the code it exited with
    fatalMsg,     \* message of the gologger.Fatal() that ended the process
    checksRun,    \* number of conditions validateOptions has evaluated
    steps,        \* history: the calls ParseOptions has made so far
    shouldLoad,   \* result of the last ShouldLoadResume() call
    shouldSave    \* result of the last ShouldSaveResume() call

vars == <<RCode, Hosts, Domains, WordList, Response, ResponseOnly, Version,
          Resume, Verbose, Silent, rcodes, hasRCodes, resumeCfg, resumeFile,
          fileReads, logLevel, err, pc, exitCode, fatalMsg, checksRun, steps,
          shouldLoad, shouldSave>>

flagVars == <<RCode, Hosts, Domains, WordList, Response, ResponseOnly,
              Version, Resume, Verbose, Silent, resumeFile>>

---------------------------------------------------------------------------
(* Bounds *)

\* Largest number of comma-separated tokens in the -rcode strings explored
\* by SpecRC.
MaxTokens == 2

---------------------------------------------------------------------------
(* Strings *)

UpperChars == <<"A", "B", "C", "D", "E", "F", "G", "H", "I", "J", "K", "L", "M",
                "N", "O", "P", "Q", "R", "S", "T", "U", "V", "W", "X", "Y", "Z">>
LowerChars == <<"a", "b", "c", "d", "e", "f", "g", "h", "i", "j", "k", "l", "m",
                "n", "o", "p", "q", "r", "s", "t", "u", "v", "w", "x", "y", "z">>
DigitChars == <<"0", "1", "2", "3", "4", "5", "6", "7", "8", "9">>

Range(f) == {f[i] : i \in DOMAIN f}

ToLowerChar(c) ==
    IF c \in Range(UpperChars)
    THEN LowerChars[CHOOSE i \in DOMAIN UpperChars : UpperChars[i] = c]
    ELSE c

\* A faulty variant of ToLower: the token is switched on as typed.
ToLowerDropped(s) == s

\* strings.ToLower
ToLower(s) == IF s = <<>> THEN <<>> ELSE [i \in 1..Len(s) |-> ToLowerChar(s[i])]

\* strings.Split(s, ","): always at least one piece; "" gives <<"">>.
RECURSIVE SplitFrom(_, _)
SplitFrom(s, cur) ==
    IF s = <<>> THEN <<cur>>
    ELSE IF Head(s) = "," THEN <<cur>> \o SplitFrom(Tail(s), <<>>)
    ELSE SplitFrom(Tail(s), Append(cur, Head(s)))

Split(s) == SplitFrom(s, <<>>)

\* strings.Join(toks, ","), used to build the inputs.
RECURSIVE Join(_)
Join(toks) ==
    IF toks = <<>> THEN <<>>
    ELSE IF Len(toks) = 1 THEN toks[1]
    ELSE toks[1] \o <<",">> \o Join(Tail(toks))

DigitVal(c) == (CHOOSE i \in DOMAIN DigitChars : DigitChars[i] = c) - 1

RECURSIVE DecimalValue(_, _)
DecimalValue(digs, acc) ==
    IF digs = <<>> THEN acc
    ELSE DecimalValue(Tail(digs), acc * 10 + DigitVal(Head(digs)))

RECURSIVE StripZeros(_)
StripZeros(digs) ==
    IF digs # <<>> /\ Head(digs) = "0" THEN StripZeros(Tail(digs)) ELSE digs

\* strconv.Atoi: an optional sign, then one or more decimal digits and
\* nothing else; no white space is accepted.  A number of more than 19
\* significant digits is out of the range of int on every build.  (The
\* numeric tokens explored have at most 2 or exactly 20 significant
\* digits, so the build's width of int decides none of them.)
Atoi(s) ==
    LET signed == s # <<>> /\ s[1] \in {"+", "-"}
        neg    == signed /\ s[1] = "-"
        digs   == IF signed THEN Tail(s) ELSE s
    IN  IF digs = <<>> \/ \E i \in DOMAIN digs : digs[i] \notin Range(DigitChars)
        THEN [ok |-> FALSE, n |-> 0]
        ELSE IF Len(StripZeros(digs)) > 19
        THEN [ok |-> FALSE, n |-> 0]
        ELSE [ok |-> TRUE,
              n  |-> IF neg THEN 0 - DecimalValue(digs, 0)
                            ELSE DecimalValue(digs, 0)]

---------------------------------------------------------------------------
(* configureRcodes *)

NoErr == "nil"
ErrInvalidRcode == "invalid rcode value"
ErrLoad == "resume.cfg: load error"

\* The cases of the switch that name a code; -1 stands for the default case.
switchRc(l) ==
    CASE l = <<"n", "o", "e", "r", "r", "o", "r">> -> 0
      [] l = <<"f", "o", "r", "m", "e", "r", "r">> -> 1
      [] l = <<"s", "e", "r", "v", "f", "a", "i", "l">> -> 2
      [] l = <<"n", "x", "d", "o", "m", "a", "i", "n">> -> 3
      [] l = <<"n", "o", "t", "i", "m", "p">> -> 4
      [] l = <<"r", "e", "f", "u", "s", "e", "d">> -> 5
      [] l = <<"y", "x", "d", "o", "m", "a", "i", "n">> -> 6
      [] l = <<"y", "x", "r", "r", "s", "e", "t">> -> 7
      [] l = <<"n", "x", "r", "r", "s", "e", "t">> -> 8
      [] l = <<"n", "o", "t", "a", "u", "t", "h">> -> 9
      [] l = <<"n", "o", "t", "z", "o", "n", "e">> -> 10
      [] l = <<"b", "a", "d", "s", "i", "g">> -> 16
      [] l = <<"b", "a", "d", "v", "e", "r", "s">> -> 16
      [] l = <<"b", "a", "d", "k", "e", "y">> -> 17
      [] l = <<"b", "a", "d", "t", "i", "m", "e">> -> 18
      [] l = <<"b", "a", "d", "m", "o", "d", "e">> -> 19
      [] l = <<"b", "a", "d", "n", "a", "m", "e">> -> 20
      [] l = <<"b", "a", "d", "a", "l", "g">> -> 21
      [] l = <<"b", "a", "d", "t", "r", "u", "n", "c">> -> 22
      [] l = <<"b", "a", "d", "c", "o", "o", "k", "i", "e">> -> 23
      [] OTHER -> -1

\* One iteration of the loop body up to the map insertion: what the token
\* does ("continue", "insert" of rc, or "return" of the error).
resolveToken(rcode) ==
    LET l == ToLower(rcode)
    IN  IF l = <<>> THEN [kind |-> "continue", rc |-> 0]
        ELSE IF switchRc(l) # -1 THEN [kind |-> "insert", rc |-> switchRc(l)]
        ELSE LET a == Atoi(rcode)
             IN  IF a.ok THEN [kind |-> "insert", rc |-> a.n]
                 ELSE [kind |-> "return", rc |-> 0]

\* A faulty variant of rcodesLoop: a token that does not parse is skipped.
RECURSIVE rcodesLoopSkipping(_, _)
rcodesLoopSkipping(toks, acc) ==
    IF toks = <<>> THEN [err |-> NoErr, rcodes |-> acc]
    ELSE LET r == resolveToken(Head(toks))
         IN  IF r.kind = "insert"
             THEN rcodesLoopSkipping(Tail(toks), acc \cup {r.rc})
             ELSE rcodesLoopSkipping(Tail(toks), acc)

\* The for loop: the map as it stands when the loop ends or returns.
RECURSIVE rcodesLoop(_, _)
rcodesLoop(toks, acc) ==
    IF toks = <<>> THEN [err |-> NoErr, rcodes |-> acc]
    ELSE LET r == resolveToken(Head(toks))
         IN  CASE r.kind = "continue" -> rcodesLoop(Tail(toks), acc)
               [] r.kind = "return"   -> [err |-> ErrInvalidRcode, rcodes |-> acc]
               [] OTHER               -> rcodesLoop(Tail(toks), acc \cup {r.rc})

\* A faulty variant of hasRCodesOf: explicit only when some code was resolved.
hasRCodesFromSet(rcode, set) == set # {}

\* options.hasRCodes = options.RCode != ""
hasRCodesOf(rcode, set) == rcode # <<>>

\* A faulty variant of defaultRcodes: no default is inserted.
defaultDropped(set) == set

\* "Set rcode to 0 if none was specified"
defaultRcodes(set) == IF Cardinality(set) = 0 THEN {0} ELSE set

\* configureRcodes: the error returned and the fields as the call leaves
\* them.  The map is replaced by a fresh one on entry and filled in place;
\* hasRCodes is assigned only when the loop completes.
configureRcodes(rcode, oldHas) ==
    LET loop == rcodesLoop(Split(rcode), {})
    IN  IF loop.err # NoErr
        THEN [err |-> loop.err, rcodes |-> loop.rcodes, hasRCodes |-> oldHas]
        ELSE [err       |-> NoErr,
              rcodes    |-> defaultRcodes(loop.rcodes),
              hasRCodes |-> hasRCodesOf(rcode, loop.rcodes)]

---------------------------------------------------------------------------
(* configureOutput, configureResume, validateOptions *)

\* gologger's level after configureOutput: the SetMaxLevel of Silent is
\* the later call.
configureOutput(verbose, silent, level) ==
    LET afterVerbose == IF verbose THEN "verbose" ELSE level
    IN  IF silent THEN "silent" ELSE afterVerbose

\* fileutil.FileExists(DefaultResumeFile)
FileExists(file) == file # "absent"

\* ShouldLoadResume
ShouldLoadResume(resume, file) == resume /\ FileExists(file)

\* ShouldSaveResume
ShouldSaveResume == TRUE

\* goconfig.Load(&options.resumeCfg, DefaultResumeFile): one read of the
\* file; a file that does not decode gives an error and leaves the record
\* as far as the decoder got.
Load(file) ==
    IF file = "valid"
    THEN [err |-> NoErr, cfgs |-> {"loaded"}, reads |-> 1]
    ELSE [err |-> ErrLoad, cfgs |-> {"empty", "partial"}, reads |-> 1]

\* A faulty variant of configureResume: the load is attempted whenever resume is set.
configureResumeNoFileCheck(resume, file) ==
    IF resume THEN Load(file)
    ELSE [err |-> NoErr, cfgs |-> {"empty"}, reads |-> 0]

\* A faulty variant of configureResume: the load error is dropped.
configureResumeSwallow(resume, file) ==
    IF resume /\ FileExists(file)
    THEN [err |-> NoErr, cfgs |-> Load(file).cfgs, reads |-> 1]
    ELSE [err |-> NoErr, cfgs |-> {"empty"}, reads |-> 0]

\* configureResume: the error returned, the values resumeCfg may hold and
\* the number of reads of the file.
configureResume(resume, file) ==
    IF resume /\ FileExists(file)
    THEN Load(file)
    ELSE [err |-> NoErr, cfgs |-> {"empty"}, reads |-> 0]

\* The marker of an input read from standard input.
stdinMarker == "-"

argumentHasStdin(arg) == arg = stdinMarker

MsgRespBoth == "resp and resp-only can't be used at the same time"
MsgListWithBrute == "list(l) flag can not be used domain(d) or wordlist(w) flag"
MsgMissingDomain == "missing domain(d) flag required with wordlist(w) input"
MsgMissingWordlist == "missing wordlist(w) flag required with domain(d) input"
MsgStdinOnce == "stdin can be set for one flag"
NoMsg == ""

\* A faulty variant of validateOptions: the list check is missing.
validateOptionsNoListCheck(resp, respOnly, hosts, domains, wordList) ==
    LET wordListPresent == wordList # ""
        domainsPresent  == domains # ""
    IN  IF resp /\ respOnly
        THEN [msg |-> MsgRespBoth, checked |-> 1]
        ELSE IF wordListPresent /\ ~domainsPresent
        THEN [msg |-> MsgMissingDomain, checked |-> 3]
        ELSE IF domainsPresent /\ ~wordListPresent
        THEN [msg |-> MsgMissingWordlist, checked |-> 4]
        ELSE IF argumentHasStdin(domains) /\ argumentHasStdin(wordList)
        THEN [msg |-> MsgStdinOnce, checked |-> 5]
        ELSE [msg |-> NoMsg, checked |-> 5]

\* A faulty variant of validateOptions: the two dependency checks come before the
\* list check.
validateOptionsReordered(resp, respOnly, hosts, domains, wordList) ==
    LET wordListPresent == wordList # ""
        domainsPresent  == domains # ""
        hostsPresent    == hosts # ""
    IN  IF resp /\ respOnly
        THEN [msg |-> MsgRespBoth, checked |-> 1]
        ELSE IF wordListPresent /\ ~domainsPresent
        THEN [msg |-> MsgMissingDomain, checked |-> 2]
        ELSE IF domainsPresent /\ ~wordListPresent
        THEN [msg |-> MsgMissingWordlist, checked |-> 3]
        ELSE IF hostsPresent /\ (wordListPresent \/ domainsPresent)
        THEN [msg |-> MsgListWithBrute, checked |-> 4]
        ELSE IF argumentHasStdin(domains) /\ argumentHasStdin(wordList)
        THEN [msg |-> MsgStdinOnce, checked |-> 5]
        ELSE [msg |-> NoMsg, checked |-> 5]

\* validateOptions: the message of the gologger.Fatal() it ends the process
\* with (NoMsg when it returns) and the number of conditions it evaluated.
validateOptions(resp, respOnly, hosts, domains, wordList) ==
    LET wordListPresent == wordList # ""
        domainsPresent  == domains # ""
        hostsPresent    == hosts # ""
    IN  IF resp /\ respOnly
        THEN [msg |-> MsgRespBoth, checked |-> 1]
        ELSE IF hostsPresent /\ (wordListPresent \/ domainsPresent)
        THEN [msg |-> MsgListWithBrute, checked |-> 2]
        ELSE IF wordListPresent /\ ~domainsPresent
        THEN [msg |-> MsgMissingDomain, checked |-> 3]
        ELSE IF domainsPresent /\ ~wordListPresent
        THEN [msg |-> MsgMissingWordlist, checked |-> 4]
        ELSE IF argumentHasStdin(domains) /\ argumentHasStdin(wordList)
        THEN [msg |-> MsgStdinOnce, checked |-> 5]
        ELSE [msg |-> NoMsg, checked |-> 5]

---------------------------------------------------------------------------
(* ParseOptions *)

\* gologger.Fatal().Msgf(msg): the message is logged and the process exits
\* with status 1.
Fatal(msg) ==
    /\ pc' = "exited"
    /\ exitCode' = 1
    /\ fatalMsg' = msg

\* options.configureOutput()
ConfigureOutput ==
    /\ pc = "configureOutput"
    /\ logLevel' = configureOutput(Verbose, Silent, logLevel)
    /\ steps' = Append(steps, "configureOutput")
    /\ pc' = "configureRcodes"
    /\ UNCHANGED <<flagVars, rcodes, hasRCodes, resumeCfg, fileReads, err,
                   exitCode, fatalMsg, checksRun, shouldLoad, shouldSave>>

\* err := options.configureRcodes()
ConfigureRcodes ==
    /\ pc = "configureRcodes"
    /\ LET r == configureRcodes(RCode, hasRCodes)
       IN  /\ err' = r.err
           /\ rcodes' = r.rcodes
           /\ hasRCodes' = r.hasRCodes
    /\ steps' = Append(steps, "configureRcodes")
    /\ pc' = "checkRcodes"
    /\ UNCHANGED <<flagVars, resumeCfg, fileReads, logLevel, exitCode,
                   fatalMsg, checksRun, shouldLoad, shouldSave>>

\* if err != nil { gologger.Fatal().Msgf("%s\n", err) }
CheckRcodes ==
    /\ pc = "checkRcodes"
    /\ IF err # NoErr
       THEN Fatal(err)
       ELSE /\ pc' = "configureResume"
            /\ UNCHANGED <<exitCode, fatalMsg>>
    /\ UNCHANGED <<flagVars, rcodes, hasRCodes, resumeCfg, fileReads,
                   logLevel, err, checksRun, steps, shouldLoad, shouldSave>>

\* err = options.configureResume()
ConfigureResume ==
    /\ pc = "configureResume"
    /\ LET r == configureResume(Resume, resumeFile)
       IN  /\ err' = r.err
           /\ resumeCfg' \in r.cfgs
           /\ fileReads' = fileReads + r.reads
    /\ steps' = Append(steps, "configureResume")
    /\ pc' = "checkResume"
    /\ UNCHANGED <<flagVars, rcodes, hasRCodes, logLevel, exitCode,
                   fatalMsg, checksRun, shouldLoad, shouldSave>>

\* if err != nil { gologger.Fatal().Msgf("%s\n", err) }
CheckResume ==
    /\ pc = "checkResume"
    /\ IF err # NoErr
       THEN Fatal(err)
       ELSE /\ pc' = "showBanner"
            /\ UNCHANGED <<exitCode, fatalMsg>>
    /\ UNCHANGED <<flagVars, rcodes, hasRCodes, resumeCfg, fileReads,
                   logLevel, err, checksRun, steps, shouldLoad, shouldSave>>

\* showBanner()
ShowBanner ==
    /\ pc = "showBanner"
    /\ steps' = Append(steps, "showBanner")
    /\ pc' = "checkVersion"
    /\ UNCHANGED <<flagVars, rcodes, hasRCodes, resumeCfg, fileReads,
                   logLevel, err, exitCode, fatalMsg, checksRun, shouldLoad,
                   shouldSave>>

\* A faulty variant of CheckVersion: the version is printed and the run goes on.
CheckVersionNoExit ==
    /\ pc = "checkVersion"
    /\ steps' = IF Version THEN Append(steps, "printVersion") ELSE steps
    /\ pc' = "validateOptions"
    /\ UNCHANGED <<flagVars, rcodes, hasRCodes, resumeCfg, fileReads,
                   logLevel, err, exitCode, fatalMsg, checksRun, shouldLoad,
                   shouldSave>>

\* if options.Version { gologger.Info().Msgf(...); os.Exit(0) }
CheckVersion ==
    /\ pc = "checkVersion"
    /\ IF Version
       THEN /\ steps' = Append(steps, "printVersion")
            /\ pc' = "exited"
            /\ exitCode' = 0
       ELSE /\ pc' = "validateOptions"
            /\ UNCHANGED <<steps, exitCode>>
    /\ UNCHANGED <<flagVars, rcodes, hasRCodes, resumeCfg, fileReads,
                   logLevel, err, fatalMsg, checksRun, shouldLoad, shouldSave>>

\* options.validateOptions()
ValidateOptions ==
    /\ pc = "validateOptions"
    /\ LET v == validateOptions(Response, ResponseOnly, Hosts, Domains, WordList)
       IN  /\ checksRun' = v.checked
           /\ IF v.msg # NoMsg
              THEN Fatal(v.msg)
              ELSE /\ pc' = "return"
                   /\ UNCHANGED <<exitCode, fatalMsg>>
    /\ steps' = Append(steps, "validateOptions")
    /\ UNCHANGED <<flagVars, rcodes, hasRCodes, resumeCfg, fileReads,
                   logLevel, err, shouldLoad, shouldSave>>

\* return options
Return ==
    /\ pc = "return"
    /\ pc' = "returned"
    /\ UNCHANGED <<flagVars, rcodes, hasRCodes, resumeCfg, fileReads,
                   logLevel, err, exitCode, fatalMsg, checksRun, steps,
                   shouldLoad, shouldSave>>

\* A call of options.ShouldLoadResume() on the returned configuration.
CallShouldLoadResume ==
    /\ pc = "returned"
    /\ shouldLoad = {}
    /\ shouldLoad' = {ShouldLoadResume(Resume, resumeFile)}
    /\ UNCHANGED <<flagVars, rcodes, hasRCodes, resumeCfg, fileReads,
                   logLevel, err, pc, exitCode, fatalMsg, checksRun, steps,
                   shouldSave>>

\* A call of options.ShouldSaveResume() on the returned configuration.
CallShouldSaveResume ==
    /\ pc = "returned"
    /\ shouldSave = {}
    /\ shouldSave' = {ShouldSaveResume}
    /\ UNCHANGED <<flagVars, rcodes, hasRCodes, resumeCfg, fileReads,
                   logLevel, err, pc, exitCode, fatalMsg, checksRun, steps,
                   shouldLoad>>

---------------------------------------------------------------------------
(* Inputs and specifications *)

\* The state after flagSet.Parse(): the fields Parse does not set hold
\* their zero values.
Zeroed ==
    /\ rcodes = {}
    /\ hasRCodes = FALSE
    /\ resumeCfg = "nil"
    /\ fileReads = 0
    /\ logLevel = "info"
    /\ err = NoErr
    /\ pc = "configureOutput"
    /\ exitCode = -1
    /\ fatalMsg = NoMsg
    /\ checksRun = 0
    /\ steps = <<>>
    /\ shouldLoad = {}
    /\ shouldSave = {}

InputValues == {"", stdinMarker, "list.txt"}

RCodeSamples ==
    { <<>>,
      <<"n", "o", "e", "r", "r", "o", "r", ",", "n", "x", "d", "o", "m", "a", "i", "n">>,
      <<"n", "o", "e", "r", "r", "o", "r", ",", "b", "o", "g", "u", "s">> }

Init ==
    /\ RCode \in RCodeSamples
    /\ Hosts \in InputValues
    /\ Domains \in InputValues
    /\ WordList \in InputValues
    /\ Response \in BOOLEAN
    /\ ResponseOnly \in BOOLEAN
    /\ Version \in BOOLEAN
    /\ Resume \in BOOLEAN
    /\ Verbose \in BOOLEAN
    /\ Silent \in BOOLEAN
    /\ resumeFile \in {"absent", "valid", "malformed"}
    /\ Zeroed

Next ==
    \/ ConfigureOutput
    \/ ConfigureRcodes
    \/ CheckRcodes
    \/ ConfigureResume
    \/ CheckResume
    \/ ShowBanner
    \/ CheckVersion
    \/ ValidateOptions
    \/ Return
    \/ CallShouldLoadResume
    \/ CallShouldSaveResume

Spec == Init /\ [][Next]_vars

\* The tokens the -rcode strings of SpecRC are built from.
SymbolicNames ==
    { <<"n", "o", "e", "r", "r", "o", "r">>,
      <<"f", "o", "r", "m", "e", "r", "r">>,
      <<"s", "e", "r", "v", "f", "a", "i", "l">>,
      <<"n", "x", "d", "o", "m", "a", "i", "n">>,
      <<"n", "o", "t", "i", "m", "p">>,
      <<"r", "e", "f", "u", "s", "e", "d">>,
      <<"y", "x", "d", "o", "m", "a", "i", "n">>,
      <<"y", "x", "r", "r", "s", "e", "t">>,
      <<"n", "x", "r", "r", "s", "e", "t">>,
      <<"n", "o", "t", "a", "u", "t", "h">>,
      <<"n", "o", "t", "z", "o", "n", "e">>,
      <<"b", "a", "d", "s", "i", "g">>,
      <<"b", "a", "d", "v", "e", "r", "s">>,
      <<"b", "a", "d", "k", "e", "y">>,
      <<"b", "a", "d", "t", "i", "m", "e">>,
      <<"b", "a", "d", "m", "o", "d", "e">>,
      <<"b", "a", "d", "n", "a", "m", "e">>,
      <<"b", "a", "d", "a", "l", "g">>,
      <<"b", "a", "d", "t", "r", "u", "n", "c">>,
      <<"b", "a", "d", "c", "o", "o", "k", "i", "e">> }

OtherTokens ==
    { <<>>,
      <<"N", "O", "E", "R", "R", "O", "R">>,
      <<"N", "x", "D", "o", "m", "a", "i", "n">>,
      <<"B", "a", "d", "V", "e", "r", "s">>,
      <<" ", "n", "o", "e", "r", "r", "o", "r">>,
      <<"s", "e", "r", "v", "f", "a", "i", "l", " ">>,
      <<" ", "R", "e", "f", "u", "s", "e", "d", " ">>,
      <<"0">>,
      <<"1", "6">>,
      <<"0", "0", "7">>,
      <<"+", "5">>,
      <<"-", "1">>,
      <<"-", "0">>,
      <<"b", "o", "g", "u", "s">>,
      <<"1", "x">>,
      <<"-">>,
      <<" ", "3">>,
      <<"9", "9", "9", "9", "9", "9", "9", "9", "9", "9",
        "9", "9", "9", "9", "9", "9", "9", "9", "9", "9">> }

Tokens == SymbolicNames \cup OtherTokens

TokenLists == UNION {[1..n -> Tokens] : n \in 0..MaxTokens}

\* SpecRC: configureRcodes and the check of its error, on every -rcode
\* string of at most MaxTokens tokens; the other flags are left unset.
InitRC ==
    /\ RCode \in {Join(toks) : toks \in TokenLists}
    /\ Hosts = ""
    /\ Domains = ""
    /\ WordList = ""
    /\ Response = FALSE
    /\ ResponseOnly = FALSE
    /\ Version = FALSE
    /\ Resume = FALSE
    /\ Verbose = FALSE
    /\ Silent = FALSE
    /\ resumeFile = "absent"
    /\ Zeroed

NextRC ==
    \/ ConfigureOutput
    \/ ConfigureRcodes
    \/ CheckRcodes

SpecRC == InitRC /\ [][NextRC]_vars

---------------------------------------------------------------------------
(* Vocabulary of the properties *)

Called(name) == \E i \in DOMAIN steps : steps[i] = name

IsPrefix(s, t) == Len(s) <= Len(t) /\ \A i \in 1..Len(s) : s[i] = t[i]

\* configureRcodes has just returned to ParseOptions.
RcodesReturned == pc = "checkRcodes"
RcodesSucceeded == RcodesReturned /\ err = NoErr

\* The symbolic table as the specification lists it.
CanonicalTable ==
    { <<<<"n", "o", "e", "r", "r", "o", "r">>, 0>>,
      <<<<"f", "o", "r", "m", "e", "r", "r">>, 1>>,
      <<<<"s", "e", "r", "v", "f", "a", "i", "l">>, 2>>,
      <<<<"n", "x", "d", "o", "m", "a", "i", "n">>, 3>>,
      <<<<"n", "o", "t", "i", "m", "p">>, 4>>,
      <<<<"r", "e", "f", "u", "s", "e", "d">>, 5>>,
      <<<<"y", "x", "d", "o", "m", "a", "i", "n">>, 6>>,
      <<<<"y", "x", "r", "r", "s", "e", "t">>, 7>>,
      <<<<"n", "x", "r", "r", "s", "e", "t">>, 8>>,
      <<<<"n", "o", "t", "a", "u", "t", "h">>, 9>>,
      <<<<"n", "o", "t", "z", "o", "n", "e">>, 10>>,
      <<<<"b", "a", "d", "s", "i", "g">>, 16>>,
      <<<<"b", "a", "d", "v", "e", "r", "s">>, 16>>,
      <<<<"b", "a", "d", "k", "e", "y">>, 17>>,
      <<<<"b", "a", "d", "t", "i", "m", "e">>, 18>>,
      <<<<"b", "a", "d", "m", "o", "d", "e">>, 19>>,
      <<<<"b", "a", "d", "n", "a", "m", "e">>, 20>>,
      <<<<"b", "a", "d", "a", "l", "g">>, 21>>,
      <<<<"b", "a", "d", "t", "r", "u", "n", "c">>, 22>>,
      <<<<"b", "a", "d", "c", "o", "o", "k", "i", "e">>, 23>>  }

CanonicalNames == {e[1] : e \in CanonicalTable}
CanonicalCode(name) == (CHOOSE e \in CanonicalTable : e[1] = name)[2]

\* Case folding and trimming as the properties understand them.
FoldCase(s) ==
    IF s = <<>> THEN <<>>
    ELSE [i \in 1..Len(s) |->
            IF \E k \in 1..26 : UpperChars[k] = s[i]
            THEN LowerChars[CHOOSE k \in 1..26 : UpperChars[k] = s[i]]
            ELSE s[i]]

RECURSIVE TrimLeft(_)
TrimLeft(s) == IF s # <<>> /\ Head(s) = " " THEN TrimLeft(Tail(s)) ELSE s

RECURSIVE TrimRight(_)
TrimRight(s) ==
    IF s # <<>> /\ s[Len(s)] = " " THEN TrimRight(SubSeq(s, 1, Len(s) - 1)) ELSE s

TrimSpace(s) == TrimRight(TrimLeft(s))

TokensOf(str) == Split(str)
TokenSet(str) == Range(TokensOf(str))

OnlyCommas(str) == \A i \in DOMAIN str : str[i] = ","

\* The integer grammar: an optional sign and one or more decimal digits.
IsDecimal(t) ==
    LET body == IF t # <<>> /\ t[1] \in {"+", "-"} THEN Tail(t) ELSE t
    IN  body # <<>> /\ \A i \in DOMAIN body : body[i] \in Range(DigitChars)

\* A token that matches neither the symbolic table nor the integer grammar.
BadToken(t) == t # <<>> /\ FoldCase(t) \notin CanonicalNames /\ ~IsDecimal(t)
HasBadToken(str) == \E t \in TokenSet(str) : BadToken(t)

\* A token configureRcodes cannot resolve: a bad one, or a number too long
\* for int.
Unparsable(t) ==
    \/ BadToken(t)
    \/ /\ FoldCase(t) \notin CanonicalNames
       /\ IsDecimal(t)
       /\ Len(StripZeros(IF t[1] \in {"+", "-"} THEN Tail(t) ELSE t)) > 19

FirstUnparsable(str) ==
    CHOOSE k \in DOMAIN TokensOf(str) :
        /\ Unparsable(TokensOf(str)[k])
        /\ \A j \in 1..(k - 1) : ~Unparsable(TokensOf(str)[j])

\* The code a token that resolves stands for.
CodeOfToken(t) ==
    IF FoldCase(t) \in CanonicalNames THEN CanonicalCode(FoldCase(t)) ELSE Atoi(t).n

CodesBeforeFirstUnparsable(str) ==
    { CodeOfToken(TokensOf(str)[j]) :
        j \in {i \in 1..(FirstUnparsable(str) - 1) : TokensOf(str)[i] # <<>>} }

---------------------------------------------------------------------------
(* Properties of configureRcodes, checked under SpecRC *)

\* C1: whenever configureRcodes returns no error the rcode set is not
\* empty, and when no token contributed a code (the string is empty or
\* holds only commas) the set is exactly {0}.
C1_RcodesNeverEmpty ==
    RcodesSucceeded =>
        /\ rcodes # {}
        /\ (OnlyCommas(RCode) => rcodes = {0})

C1_Witness ==
    /\ RcodesSucceeded
    /\ RCode = <<",">>
    /\ rcodes = {0}

C3_HasRCodesIffNonEmpty ==
    RcodesSucceeded =>
        /\ hasRCodes <=> (RCode # <<>>)
        /\ (RCode = <<>> => rcodes = {0} /\ ~hasRCodes)
        /\ (RCode # <<>> /\ OnlyCommas(RCode) => rcodes = {0} /\ hasRCodes)
        /\ (RCode = <<"n", "o", "e", "r", "r", "o", "r">> => rcodes = {0} /\ hasRCodes)

C3_Witness ==
    /\ RcodesSucceeded
    /\ RCode = <<",">>
    /\ rcodes = {0}
    /\ hasRCodes

\* C4 as stated: with a token that matches neither the table nor the
\* integer grammar configureRcodes fails with the invalid-rcode error, and
\* when the error is returned and reported the rcode set holds no code of
\* the tokens before the bad one.
C4_AsStated ==
    (HasBadToken(RCode) /\ pc \in {"checkRcodes", "exited"})
    => /\ err = ErrInvalidRcode
       /\ rcodes = {}

\* C4 amended: with such a token configureRcodes returns the invalid-rcode
\* error and ParseOptions ends the process with it, status 1, going no
\* further; the rcode set is not cleared: it holds the codes of the tokens
\* before the first token that does not resolve, and hasRCodes is unset.
C4_FailsWithPartialSet ==
    HasBadToken(RCode) =>
        /\ pc \in {"configureOutput", "configureRcodes", "checkRcodes", "exited"}
        /\ pc \in {"checkRcodes", "exited"} =>
              /\ err = ErrInvalidRcode
              /\ rcodes = CodesBeforeFirstUnparsable(RCode)
              /\ ~hasRCodes
        /\ pc = "exited" => exitCode = 1 /\ fatalMsg = ErrInvalidRcode

C4_Witness ==
    /\ pc = "exited"
    /\ fatalMsg = ErrInvalidRcode
    /\ RCode = <<"n", "x", "d", "o", "m", "a", "i", "n", ",", "b", "o", "g", "u", "s">>
    /\ rcodes = {3}

\* C5: every element of the rcode set of a successful configureRcodes is a
\* non-negative integer, tokens parsed as integers included.
C5_NonNegative ==
    RcodesSucceeded => \A c \in rcodes : c >= 0

---------------------------------------------------------------------------
(* Properties of ParseOptions, checked under Spec *)

\* The five rules, as the specification numbers them.
Rule(i) ==
    CASE i = 1 -> Response /\ ResponseOnly
      [] i = 2 -> Hosts # "" /\ (WordList # "" \/ Domains # "")
      [] i = 3 -> WordList # "" /\ Domains = ""
      [] i = 4 -> Domains # "" /\ WordList = ""
      [] i = 5 -> Domains = stdinMarker /\ WordList = stdinMarker

RuleMsg(i) ==
    CASE i = 1 -> MsgRespBoth
      [] i = 2 -> MsgListWithBrute
      [] i = 3 -> MsgMissingDomain
      [] i = 4 -> MsgMissingWordlist
      [] i = 5 -> MsgStdinOnce

Violated == {i \in 1..5 : Rule(i)}
LowestViolated == CHOOSE i \in Violated : \A j \in Violated : i <= j

StdinFields ==
    {f \in {"Hosts", "Domains", "WordList"} :
        CASE f = "Hosts"    -> Hosts = stdinMarker
          [] f = "Domains"  -> Domains = stdinMarker
          [] f = "WordList" -> WordList = stdinMarker}

EarlierStepsSucceed ==
    /\ \A t \in TokenSet(RCode) : ~Unparsable(t)
    /\ ~(Resume /\ resumeFile = "malformed")

StepsBeforeVersion ==
    <<"configureOutput", "configureRcodes", "configureResume", "showBanner">>

\* C6: once validateOptions has run, the process has ended with the
\* message of the lowest-numbered violated rule, having evaluated no later
\* check, or no rule is violated and validateOptions returned silently
\* after all five checks.
C6_FirstViolationWins ==
    Called("validateOptions") =>
        IF Violated = {}
        THEN /\ pc \in {"return", "returned"}
             /\ exitCode = -1
             /\ fatalMsg = NoMsg
             /\ checksRun = 5
        ELSE /\ pc = "exited"
             /\ exitCode = 1
             /\ fatalMsg = RuleMsg(LowestViolated)
             /\ checksRun = LowestViolated

C6_Witness ==
    /\ pc = "exited"
    /\ Violated = {2, 3}
    /\ fatalMsg = MsgListWithBrute
    /\ checksRun = 2

\* C7: a returned configuration has at most one of Hosts, Domains and
\* WordList equal to the standard-input marker, and a run in which Hosts
\* and another input field are both the marker ends in validateOptions.
C7_AtMostOneStdin ==
    /\ pc = "returned" => Cardinality(StdinFields) <= 1
    /\ (/\ Called("validateOptions")
        /\ Hosts = stdinMarker
        /\ (Domains = stdinMarker \/ WordList = stdinMarker))
       => pc = "exited" /\ exitCode = 1

C7_Witness ==
    /\ pc = "exited"
    /\ Hosts = stdinMarker
    /\ Domains = stdinMarker
    /\ WordList = "list.txt"
    /\ ~Response
    /\ fatalMsg = MsgListWithBrute

\* C8: the calls of ParseOptions come in the fixed order; with the version
\* flag set and the two earlier steps succeeding the process never reaches
\* validateOptions and ends with status 0 and no error message; and a
\* configuration is returned only with the version flag unset, every
\* earlier step succeeded and no rule violated.
C8_FixedOrder ==
    /\ \/ IsPrefix(steps, StepsBeforeVersion \o <<"printVersion">>)
       \/ IsPrefix(steps, StepsBeforeVersion \o <<"validateOptions">>)
    /\ Called("printVersion") => pc = "exited" /\ exitCode = 0
    /\ (Version /\ EarlierStepsSucceed) =>
          /\ ~Called("validateOptions")
          /\ pc \notin {"validateOptions", "return", "returned"}
          /\ checksRun = 0
          /\ fatalMsg = NoMsg
          /\ pc = "exited" =>
                /\ exitCode = 0
                /\ steps = StepsBeforeVersion \o <<"printVersion">>
    /\ pc = "returned" =>
          /\ ~Version
          /\ EarlierStepsSucceed
          /\ Violated = {}
          /\ exitCode = -1
          /\ steps = StepsBeforeVersion \o <<"validateOptions">>

C8_Witness ==
    /\ pc = "exited"
    /\ exitCode = 0
    /\ Version
    /\ Violated = {1, 2, 4}
    /\ ~Called("validateOptions")

\* C9: ShouldLoadResume answers true exactly when the resume flag is set
\* and resume.cfg exists; the file is read at most once, and exactly when
\* configureResume has run in that case; in every other case
\* configureResume leaves the empty record and returns no error.
C9_LoadOnlyWhenRequestedAndPresent ==
    /\ shouldLoad # {} => shouldLoad = {Resume /\ resumeFile # "absent"}
    /\ fileReads <= 1
    /\ fileReads = 1 <=>
          (Called("configureResume") /\ Resume /\ resumeFile # "absent")
    /\ (pc = "checkResume" /\ ~(Resume /\ resumeFile # "absent")) =>
          /\ resumeCfg = "empty"
          /\ err = NoErr

C9_Witness ==
    /\ pc = "checkResume"
    /\ Resume
    /\ resumeFile = "absent"
    /\ resumeCfg = "empty"
    /\ err = NoErr
    /\ fileReads = 0

\* C10: with resume requested and a resume.cfg that does not decode,
\* configureResume hands the load error back to ParseOptions with the
\* process still running, and ParseOptions then ends the process with
\* status 1 before the banner, the version check and validateOptions,
\* whether or not the version flag is set.
C10_LoadErrorIsFatalInCaller ==
    (Resume /\ resumeFile = "malformed") =>
        /\ pc = "checkResume" => err = ErrLoad /\ exitCode = -1
        /\ pc \notin {"showBanner", "checkVersion", "validateOptions",
                      "return", "returned"}
        /\ ~Called("showBanner")
        /\ ~Called("printVersion")
        /\ ~Called("validateOptions")
        /\ pc = "exited" => exitCode = 1
        /\ (pc = "exited" /\ Called("configureResume")) => fatalMsg = ErrLoad

C10_Witness ==
    /\ pc = "exited"
    /\ Version
    /\ Resume
    /\ resumeFile = "malformed"
    /\ exitCode = 1
    /\ fatalMsg = ErrLoad

===========================================================================
